---- MODULE Spec2Model ----
(***************************************************************************)
(* A model of git-mcp-rs (src/src/main.rs): the line-delimited JSON-RPC    *)
(* loop of main, the tool dispatch of tools/call, and the capability       *)
(* providers as far as the dispatch core depends on them.                  *)
(*                                                                         *)
(* JSON values are records: a scalar is [t, s, n] (type tag, string        *)
(* payload, numeric payload), an object is [t |-> "obj", m |-> record].    *)
(* An Option is <<>> (None) or <<v>> (Some(v)).                            *)
(***************************************************************************)
EXTENDS Integers, Sequences, FiniteSets, TLC

VARIABLES
    input,      \* the lines the peer has sent so far, in order (stdin)
    pc,         \* position of main: "read", "provider", "write", "done"
    req,        \* the request of the current iteration, <<>> between iterations
    call,       \* the provider invocation in flight, <<>> when none
    response,   \* the response built but not yet written, <<>> when none
    out,        \* the lines written to stdout: [line, env], line = index in input
    calls,      \* every provider invocation made so far: [line, call, outcome]
    diag,       \* the diagnostic channel (stderr): [line, msg]
    exit,       \* "running", "ok" (main returned) or "panic" (main unwound)
    remote,     \* get_tags on its own: the remote's tags and the limit given to it
    listing     \* get_tags on its own: its result, <<>> before it ran

vars == <<input, pc, req, call, response, out, calls, diag, exit, remote, listing>>

loopVars == <<input, pc, req, call, response, out, calls, diag, exit>>

(***************************************************************************)
(* Bounds of the model.                                                    *)
(***************************************************************************)
MaxLines == 2

MaxTags == 3

(***************************************************************************)
(* JSON values (serde_json::Value) and Option.                             *)
(***************************************************************************)
Null == [t |-> "null", s |-> "", n |-> 0]

Str(x) == [t |-> "str", s |-> x, n |-> 0]

Num(k) == [t |-> "num", s |-> "", n |-> k]

Obj(members) == [t |-> "obj", m |-> members]

EmptyObj == <<>>

None == <<>>

Some(v) == <<v>>

\* Value's Index<&str>: the member of an object, Null for anything else.
Member(v, key) ==
    IF v.t = "obj" /\ key \in DOMAIN v.m THEN v.m[key] ELSE Null

\* Value::as_str
as_str(v) == IF v.t = "str" THEN Some(v.s) ELSE None

\* Value::as_u64
as_u64(v) == IF v.t = "num" /\ v.n >= 0 THEN Some(v.n) ELSE None

\* Option::unwrap_or
unwrap_or(o, d) == IF o = None THEN d ELSE o[1]

\* json!(option): None is written as null
OptionJson(o) == IF o = None THEN Null ELSE o[1]

(***************************************************************************)
(* Strings that are inspected character by character (tag names, the       *)
(* columns of git's output) are sequences of one-character strings; the    *)
(* ref prefix "refs/tags/" is a single element.                            *)
(***************************************************************************)
Digit == {"0", "1", "2", "3", "4", "5", "6", "7", "8", "9"}

DigitVal(c) ==
    CASE c = "0" -> 0 [] c = "1" -> 1 [] c = "2" -> 2 [] c = "3" -> 3
      [] c = "4" -> 4 [] c = "5" -> 5 [] c = "6" -> 6 [] c = "7" -> 7
      [] c = "8" -> 8 [] c = "9" -> 9

Letter == {"a", "b", "c", "e", "l", "r", "s", "t", "v"}

\* The byte of a character, as String's Ord compares it.
Byte(c) ==
    CASE c = "-" -> 45 [] c = "." -> 46
      [] c \in Digit -> 48 + DigitVal(c)
      [] c = "a" -> 97 [] c = "b" -> 98 [] c = "c" -> 99 [] c = "e" -> 101
      [] c = "l" -> 108 [] c = "r" -> 114 [] c = "s" -> 115 [] c = "t" -> 116
      [] c = "v" -> 118
      [] OTHER -> 47

\* Ord::cmp on integers
CmpInt(a, b) == IF a < b THEN "Less" ELSE IF a > b THEN "Greater" ELSE "Equal"

\* str::cmp: lexicographic on bytes, a proper prefix is smaller
RECURSIVE StrCmp(_, _)
StrCmp(a, b) ==
    IF a = <<>> /\ b = <<>> THEN "Equal"
    ELSE IF a = <<>> THEN "Less"
    ELSE IF b = <<>> THEN "Greater"
    ELSE IF Byte(a[1]) # Byte(b[1]) THEN CmpInt(Byte(a[1]), Byte(b[1]))
    ELSE StrCmp(Tail(a), Tail(b))

\* str::trim_start_matches(pat) for a one-element pattern: strips every leading pat
RECURSIVE trim_start_matches(_, _)
trim_start_matches(s, pat) ==
    IF s # <<>> /\ s[1] = pat THEN trim_start_matches(Tail(s), pat) ELSE s

\* The number of leading elements of s that are in class
RECURSIVE PrefixLen(_, _)
PrefixLen(s, class) ==
    IF s # <<>> /\ s[1] \in class THEN 1 + PrefixLen(Tail(s), class) ELSE 0

RECURSIVE DecVal(_)
DecVal(ds) == IF ds = <<>> THEN 0 ELSE 10 * DecVal(SubSeq(ds, 1, Len(ds) - 1)) + DigitVal(ds[Len(ds)])

Drop(s, k) == SubSeq(s, k + 1, Len(s))

\* s split at every "."
RECURSIVE SplitDots(_)
SplitDots(s) ==
    LET k == PrefixLen(s, (Digit \cup Letter \cup {"-"}))
    IN  IF k = Len(s) THEN <<s>>
        ELSE IF s[k + 1] = "." THEN <<SubSeq(s, 1, k)>> \o SplitDots(Drop(s, k + 1))
        ELSE <<SubSeq(s, 1, k), <<"?">>>>

(***************************************************************************)
(* semver::Version::parse and Version's Ord (major, minor, patch, then the *)
(* pre-release rule). Build metadata ("+") is outside the alphabet.        *)
(***************************************************************************)
NoVersion == [ok |-> FALSE]

\* semver's numeric_identifier: digits, no leading zero
numeric_identifier(s) ==
    LET k == PrefixLen(s, Digit)
    IN  IF k = 0 \/ (k > 1 /\ s[1] = "0") THEN [ok |-> FALSE]
        ELSE [ok |-> TRUE, val |-> DecVal(SubSeq(s, 1, k)), rest |-> Drop(s, k)]

IsNumericIdent(seg) == seg # <<>> /\ PrefixLen(seg, Digit) = Len(seg)

\* a pre-release segment: non-empty, [0-9A-Za-z-], numeric ones without leading zero
PreSegmentOk(seg) ==
    /\ seg # <<>>
    /\ PrefixLen(seg, (Digit \cup Letter \cup {"-"})) = Len(seg)
    /\ IsNumericIdent(seg) => (Len(seg) = 1 \/ seg[1] # "0")

VersionParse(text) ==
    LET ma == numeric_identifier(text)
    IN  IF ~ma.ok \/ ma.rest = <<>> \/ ma.rest[1] # "." THEN NoVersion
        ELSE LET mi == numeric_identifier(Tail(ma.rest))
             IN  IF ~mi.ok \/ mi.rest = <<>> \/ mi.rest[1] # "." THEN NoVersion
                 ELSE LET pa == numeric_identifier(Tail(mi.rest))
                      IN  IF ~pa.ok THEN NoVersion
                          ELSE IF pa.rest = <<>>
                               THEN [ok |-> TRUE, major |-> ma.val, minor |-> mi.val,
                                     patch |-> pa.val, pre |-> <<>>]
                          ELSE IF pa.rest[1] # "-" THEN NoVersion
                          ELSE LET segs == SplitDots(Tail(pa.rest))
                               IN  IF \A i \in 1..Len(segs) : PreSegmentOk(segs[i])
                                   THEN [ok |-> TRUE, major |-> ma.val, minor |-> mi.val,
                                         patch |-> pa.val, pre |-> segs]
                                   ELSE NoVersion

\* one pre-release identifier against another: numeric below alphanumeric
CmpIdent(a, b) ==
    IF IsNumericIdent(a) /\ IsNumericIdent(b) THEN CmpInt(DecVal(a), DecVal(b))
    ELSE IF IsNumericIdent(a) THEN "Less"
    ELSE IF IsNumericIdent(b) THEN "Greater"
    ELSE StrCmp(a, b)

RECURSIVE CmpPre(_, _)
CmpPre(p, q) ==
    IF p = <<>> /\ q = <<>> THEN "Equal"
    ELSE IF p = <<>> THEN "Less"
    ELSE IF q = <<>> THEN "Greater"
    ELSE IF CmpIdent(p[1], q[1]) # "Equal" THEN CmpIdent(p[1], q[1])
    ELSE CmpPre(Tail(p), Tail(q))

\* Version::cmp; a version without pre-release is above the same version with one
VersionCmp(a, b) ==
    IF a.major # b.major THEN CmpInt(a.major, b.major)
    ELSE IF a.minor # b.minor THEN CmpInt(a.minor, b.minor)
    ELSE IF a.patch # b.patch THEN CmpInt(a.patch, b.patch)
    ELSE IF a.pre = <<>> /\ b.pre = <<>> THEN "Equal"
    ELSE IF a.pre = <<>> THEN "Greater"
    ELSE IF b.pre = <<>> THEN "Less"
    ELSE CmpPre(a.pre, b.pre)

(***************************************************************************)
(* get_tags: the tag names of git's output, the sort and the limit.        *)
(***************************************************************************)
\* One line of `git ls-remote --tags --refs`: object name, TAB, ref
LsRemoteLine(tag) == << <<"s">>, <<"refs/tags/">> \o tag >>

\* Iterator::nth(1) on the TAB-separated columns, unwrap_or("")
SecondColumn(cols) == IF Len(cols) >= 2 THEN cols[2] ELSE <<>>

\* lines 101-110: the tag name of every line of the output
TagsOfOutput(lines) ==
    [i \in 1..Len(lines) |-> trim_start_matches(SecondColumn(lines[i]), "refs/tags/")]

\* Version::parse(a.trim_start_matches('v'))
TagVersion(tag) == VersionParse(trim_start_matches(tag, "v"))

\* TagOrder with the versions compared the wrong way round (ascending)
TagOrderAscending(a, b) ==
    LET ver_a == TagVersion(a)
        ver_b == TagVersion(b)
    IN  IF ver_a.ok /\ ver_b.ok THEN VersionCmp(ver_a, ver_b)
        ELSE IF ver_a.ok THEN "Less"
        ELSE IF ver_b.ok THEN "Greater"
        ELSE StrCmp(b, a)

\* the comparator of tags.sort_by
TagOrder(a, b) ==
    LET ver_a == TagVersion(a)
        ver_b == TagVersion(b)
    IN  IF ver_a.ok /\ ver_b.ok THEN VersionCmp(ver_b, ver_a)
        ELSE IF ver_a.ok THEN "Less"
        ELSE IF ver_b.ok THEN "Greater"
        ELSE StrCmp(b, a)

\* slice::sort_by is a stable sort: insertion from the left, an element moves
\* ahead only of elements that compare Greater than it
RECURSIVE InsertTag(_, _)
InsertTag(sorted, x) ==
    IF sorted = <<>> THEN <<x>>
    ELSE IF TagOrder(sorted[Len(sorted)], x) = "Greater"
         THEN Append(InsertTag(SubSeq(sorted, 1, Len(sorted) - 1), x), sorted[Len(sorted)])
         ELSE Append(sorted, x)

RECURSIVE SortTags(_)
SortTags(tags) ==
    IF tags = <<>> THEN <<>>
    ELSE InsertTag(SortTags(SubSeq(tags, 1, Len(tags) - 1)), tags[Len(tags)])

\* Truncate that takes a limit of 0 for "no limit"
TruncateUnlessZero(tags, limit) ==
    IF limit # None /\ limit[1] > 0 /\ limit[1] < Len(tags) THEN SubSeq(tags, 1, limit[1]) ELSE tags

\* lines 124-126: Vec::truncate(n) when a limit is given and n < len
Truncate(tags, limit) ==
    IF limit # None /\ limit[1] < Len(tags) THEN SubSeq(tags, 1, limit[1]) ELSE tags

\* lines 101-133 of get_tags, once git has succeeded with `lines`
TagListing(link, limit, lines) ==
    LET tags == Truncate(SortTags(TagsOfOutput(lines)), limit)
    IN  [repository |-> link, count |-> Len(tags), limit_applied |-> OptionJson(IF limit = None THEN None ELSE Some(Num(limit[1]))),
         tags |-> tags]

(***************************************************************************)
(* The wire: what one read of stdin can deliver.                           *)
(* A line is text that is no JSON document ([t |-> "raw"], s is the text), *)
(* a JSON value, or a read error of the stream ([t |-> "ioerr"]).          *)
(***************************************************************************)
Raw(text) == [t |-> "raw", s |-> text, n |-> 0]

ReadError == [t |-> "ioerr", s |-> "", n |-> 0]

\* str::trim on the texts the model sends
Trim(text) == IF text = "   " THEN "" ELSE text

\* line 358: input.trim().is_empty()
IsBlankLine(l) == l.t = "raw" /\ Trim(l.s) = ""

ParseFailure == [ok |-> FALSE]

\* from_str with id declared as Value instead of Option<Value>: null is kept
from_str_keeps_null(l) ==
    IF l.t # "obj" THEN ParseFailure
    ELSE IF "jsonrpc" \notin DOMAIN l.m \/ "method" \notin DOMAIN l.m THEN ParseFailure
    ELSE IF l.m.jsonrpc.t # "str" \/ l.m.method.t # "str" THEN ParseFailure
    ELSE [ok |-> TRUE,
          req |-> [jsonrpc |-> l.m.jsonrpc.s,
                   method |-> l.m.method.s,
                   params |-> IF "params" \in DOMAIN l.m THEN l.m.params ELSE Null,
                   id |-> IF "id" \notin DOMAIN l.m THEN None ELSE Some(l.m.id)]]

\* from_str that also insists on the protocol version "2.0"
from_str_checks_version(l) ==
    IF l.t # "obj" THEN ParseFailure
    ELSE IF "jsonrpc" \notin DOMAIN l.m \/ "method" \notin DOMAIN l.m THEN ParseFailure
    ELSE IF l.m.jsonrpc.t # "str" \/ l.m.method.t # "str" THEN ParseFailure
    ELSE IF l.m.jsonrpc.s # "2.0" THEN ParseFailure
    ELSE [ok |-> TRUE,
          req |-> [jsonrpc |-> l.m.jsonrpc.s,
                   method |-> l.m.method.s,
                   params |-> IF "params" \in DOMAIN l.m THEN l.m.params ELSE Null,
                   id |-> IF "id" \notin DOMAIN l.m \/ l.m.id = Null THEN None ELSE Some(l.m.id)]]

\* lines 11-20 and 361: serde_json::from_str::<JsonRpcRequest>. jsonrpc and
\* method are required strings, params defaults to Value::Null, an id that is
\* missing or null is None; other members are ignored.
from_str(l) ==
    IF l.t # "obj" THEN ParseFailure
    ELSE IF "jsonrpc" \notin DOMAIN l.m \/ "method" \notin DOMAIN l.m THEN ParseFailure
    ELSE IF l.m.jsonrpc.t # "str" \/ l.m.method.t # "str" THEN ParseFailure
    ELSE [ok |-> TRUE,
          req |-> [jsonrpc |-> l.m.jsonrpc.s,
                   method |-> l.m.method.s,
                   params |-> IF "params" \in DOMAIN l.m THEN l.m.params ELSE Null,
                   id |-> IF "id" \notin DOMAIN l.m \/ l.m.id = Null THEN None ELSE Some(l.m.id)]]

(***************************************************************************)
(* Responses (lines 378-480).                                              *)
(***************************************************************************)
\* Envelope answering with a null id whatever id the request carried
EnvelopeNullId(id, result) == [jsonrpc |-> "2.0", id |-> Null, result |-> result]

Envelope(id, result) == [jsonrpc |-> "2.0", id |-> OptionJson(id), result |-> result]

\* lines 380-388
InitializeResult ==
    [protocolVersion |-> "2024-11-05",
     capabilities |-> [tools |-> EmptyObj],
     serverInfo |-> [name |-> "rust-git-mcp", version |-> "0.2.0"]]

Prop(type) == [type |-> type]

PropD(type, description) == [type |-> type, description |-> description]

Tool(name, description, properties, required) ==
    [name |-> name,
     description |-> description,
     inputSchema |-> [type |-> "object", properties |-> properties, required |-> required]]

\* lines 395-448: the descriptors, in source order
ToolCatalog ==
    << Tool("get_tags",
            "Call this tool BEFORE writing any dependency in Cargo.toml/package.json. Returns the latest versions. Use 'limit: 5' to avoid fetching old tags.",
            [url |-> Prop("string"),
             limit |-> PropD("integer", "Number of latest tags to return. Default returns ALL (avoid this for large repos).")],
            <<"url">>),
       Tool("get_changelog",
            "Analyze commit messages between versions to identify breaking changes, deprecated features, or migration guides.",
            [url |-> Prop("string"), start_tag |-> Prop("string"), end_tag |-> Prop("string")],
            <<"url", "start_tag", "end_tag">>),
       Tool("get_readme",
            "Read the README to find installation instructions and basic usage examples that are compatible with the fetched version.",
            [url |-> Prop("string")],
            <<"url">>),
       Tool("get_file_tree",
            "Explore the repository structure. Look for 'examples/' or 'tests/' folders to find up-to-date code patterns.",
            [url |-> Prop("string"), branch |-> Prop("string")],
            <<"url">>),
       Tool("get_file_content",
            "Read content of source files (especially in 'examples/'). Use this to verify API syntax and ensure the code you write matches the library version.",
            [url |-> PropD("string", "Repository URL"),
             path |-> PropD("string", "Path to the file (e.g., 'src/main.cpp' or 'module.prop')"),
             branch |-> PropD("string", "Branch name or Tag (e.g., 'v1.0.0'). Defaults to HEAD/main.")],
            <<"url", "path">>),
       Tool("search_repository",
            "Search for code, functions, or text inside the repository using GitHub Search API.",
            [url |-> Prop("string"),
             query |-> PropD("string", "Text/Code to search (e.g., 'dependencies', 'fn main', 'struct Config')")],
            <<"url", "query">>) >>

\* the names matched at lines 458-468
RegisteredTools ==
    {"get_tags", "get_changelog", "get_readme", "get_file_tree", "get_file_content",
     "search_repository"}

Ok(data) == [ok |-> TRUE, data |-> data]

Err(e) == [ok |-> FALSE, err |-> e]

\* Value::to_string: the JSON text of a value
ToJsonText(data) == [json |-> data]

TextContent(text) == <<[type |-> "text", text |-> text]>>

\* ToolResult with the failure branch lacking the flag
ToolResultUnflagged(result_content) ==
    IF result_content.ok
    THEN [content |-> TextContent(ToJsonText(result_content.data))]
    ELSE [content |-> TextContent(result_content.err)]

\* lines 473-476
ToolResult(result_content) ==
    IF result_content.ok
    THEN [content |-> TextContent(ToJsonText(result_content.data))]
    ELSE [isError |-> TRUE, content |-> TextContent(result_content.err)]

\* ToolNotFound without the name in its text
ToolNotFoundUnnamed(name) == Err("Tool not found")

\* line 470
ToolNotFound(name) == Err("Tool '" \o name \o "' not found")

\* lines 454-455
CallArgs(r) == Member(r.params, "arguments")

CallName(r) == unwrap_or(as_str(Member(r.params, "name")), "")

StrArg(args, key) == unwrap_or(as_str(Member(args, key)), "")

\* lines 458-468: the arguments each provider is invoked with
Extract(name, args) ==
    CASE name = "get_tags" ->
           [tool |-> name, link |-> StrArg(args, "url"), limit |-> as_u64(Member(args, "limit"))]
      [] name = "get_changelog" ->
           [tool |-> name, link |-> StrArg(args, "url"), v1 |-> StrArg(args, "start_tag"),
            v2 |-> StrArg(args, "end_tag")]
      [] name = "get_readme" -> [tool |-> name, link |-> StrArg(args, "url")]
      [] name = "get_file_tree" ->
           [tool |-> name, link |-> StrArg(args, "url"), branch |-> as_str(Member(args, "branch"))]
      [] name = "get_file_content" ->
           [tool |-> name, link |-> StrArg(args, "url"), file_path |-> StrArg(args, "path"),
            branch |-> as_str(Member(args, "branch"))]
      [] name = "search_repository" ->
           [tool |-> name, link |-> StrArg(args, "url"), query |-> StrArg(args, "query")]

(***************************************************************************)
(* The capability providers. A provider is an operator from its arguments  *)
(* to the set of outcomes the environment (git, the GitHub API) allows:    *)
(* [kind |-> "return", res, built, sent] or [kind |-> "panic", built,      *)
(* sent]; built tells whether build_client ran, sent lists the URLs asked. *)
(***************************************************************************)
Return(res, built, sent) == [kind |-> "return", res |-> res, built |-> built, sent |-> sent]

Panic(built, sent) == [kind |-> "panic", built |-> built, sent |-> sent]

\* The "/"-separated pieces of the URLs the model sends
UrlSegments(url) ==
    CASE url = "https://github.com/o/r" -> <<"https:", "", "github.com", "o", "r">>
      [] url = "https://github.com/o/r.git" -> <<"https:", "", "github.com", "o", "r.git">>
      [] url = "https://github.com/o" -> <<"https:", "", "github.com", "o">>
      [] url = "https://gitlab.com/o/r" -> <<"https:", "", "gitlab.com", "o", "r">>
      [] url = "https://notgithub.com/o/r" -> <<"https:", "", "notgithub.com", "o", "r">>
      [] url = "https://example.com/github.com/o/r" ->
           <<"https:", "", "example.com", "github.com", "o", "r">>
      [] url = "https://github.com/o/r/" -> <<"https:", "", "github.com", "o", "r", "">>
      [] OTHER -> <<url>>

\* the pattern is not anchored on the left: any piece ending in github.com fits
EndsWithGithubCom(seg) == seg \in {"github.com", "www.github.com", "notgithub.com"}

\* ([^/]+?)(?:\.git)?$ on the last piece
RepoOfSegment(seg) == IF seg = "r.git" THEN "r" ELSE seg

\* lines 29-33: github\.com/([^/]+)/([^/]+?)(?:\.git)?$ is searched in url
parse_github_url(url) ==
    LET segs == UrlSegments(url)
        hits == {k \in 1..Len(segs) : /\ EndsWithGithubCom(segs[k])
                                      /\ Len(segs) = k + 2
                                      /\ segs[k + 1] # ""
                                      /\ segs[k + 2] # ""}
    IN  IF hits = {} THEN Err("Invalid GitHub URL")
        ELSE LET k == CHOOSE h \in hits : TRUE
             IN  Ok([owner |-> segs[k + 1], repo |-> RepoOfSegment(segs[k + 2])])

\* What an HTTP GET can come to: no response, a non-2xx status, a 2xx body
HttpFailures ==
    {[kind |-> "neterr", text |-> "error sending request"],
     [kind |-> "status", text |-> "404 Not Found"]}

HttpOk(body) == [kind |-> "ok", body |-> body]

\* Response bodies (text): len is the length in bytes, inner the byte offsets
\* that are not character boundaries
Bodies ==
    {[name |-> "short", len |-> 120, inner |-> {}],
     [name |-> "long", len |-> 40000, inner |-> {}],
     [name |-> "long-utf8", len |-> 40000, inner |-> {20000, 30000}]}

ReadmeLimit == 20000

FileLimit == 30000

\* &content[..k]: panics unless k is a character boundary
SliceTo(content, k) == [name |-> content.name, len |-> k, inner |-> {}]

\* lines 43-74 and the send that follows: the replies a GET of api_url can get,
\* or the failure of build_client
Fetch(api_url, bodies) ==
    {[built |-> FALSE, sent |-> <<>>, reply |-> [kind |-> "nobuild", text |-> "builder error"]]}
    \cup {[built |-> TRUE, sent |-> <<api_url>>, reply |-> r] :
            r \in HttpFailures \cup {HttpOk(b) : b \in bodies}}

\* The outputs `git ls-remote --tags --refs link` has in the model
TagA == <<"v", "1", ".", "2", ".", "0">>

TagB == <<"v", "1", ".", "1", "0", ".", "0">>

TagC == <<"l", "a", "t", "e", "s", "t">>

GitReplies(link) ==
    {[kind |-> "fail", text |-> "fatal: repository not found"]}
    \cup (IF link = "" THEN {}
          ELSE {[kind |-> "ok", lines |-> <<LsRemoteLine(TagA), LsRemoteLine(TagB), LsRemoteLine(TagC)>>]})

\* lines 87-134
get_tags(link, limit) ==
    {IF g.kind = "fail" THEN Return(Err(g.text), FALSE, <<>>)
     ELSE Return(Ok(TagListing(link, limit, g.lines)), FALSE, <<>>) : g \in GitReplies(link)}

\* lines 160-164 on the commits of the body
Summaries(commits) ==
    [i \in 1..Len(commits) |-> "[" \o commits[i].day \o "] " \o commits[i].subject]

CompareBodies ==
    {[commits |-> Some(<<[day |-> "2024-01-02", subject |-> "fix parser"]>>)],
     [commits |-> None]}

\* lines 148-167
get_changelog(link, v1, v2) ==
    LET p == parse_github_url(link)
    IN  IF ~p.ok THEN {Return(p, FALSE, <<>>)}
        ELSE LET api_url == "https://api.github.com/repos/" \o p.data.owner \o "/" \o p.data.repo
                            \o "/compare/" \o v1 \o "..." \o v2
             IN  {IF f.reply.kind = "nobuild" \/ f.reply.kind = "neterr"
                  THEN Return(Err(f.reply.text), f.built, f.sent)
                  ELSE IF f.reply.kind = "status"
                  THEN Return(Err("API Error: " \o f.reply.text), f.built, f.sent)
                  ELSE IF f.reply.body.commits = None
                  THEN Return(Err("No commits found"), f.built, f.sent)
                  ELSE Return(Ok([repository |-> link, from |-> v1, to |-> v2,
                                  changes |-> Summaries(f.reply.body.commits[1])]),
                              f.built, f.sent)
                  : f \in Fetch(api_url, CompareBodies)}

\* lines 179-196
get_readme(link) ==
    LET p == parse_github_url(link)
    IN  IF ~p.ok THEN {Return(p, FALSE, <<>>)}
        ELSE LET api_url == "https://api.github.com/repos/" \o p.data.owner \o "/" \o p.data.repo
                            \o "/readme"
             IN  {IF f.reply.kind = "nobuild" \/ f.reply.kind = "neterr"
                  THEN Return(Err(f.reply.text), f.built, f.sent)
                  ELSE IF f.reply.kind = "status"
                  THEN Return(Err("Error: " \o f.reply.text), f.built, f.sent)
                  ELSE IF f.reply.body.len > ReadmeLimit
                  THEN IF ReadmeLimit \in f.reply.body.inner
                       THEN Panic(f.built, f.sent)
                       ELSE Return(Ok([repository |-> link, type |-> "readme",
                                       content |-> [text |-> SliceTo(f.reply.body, ReadmeLimit),
                                                   suffix |-> "... [TRUNCATED]"]]),
                                   f.built, f.sent)
                  ELSE Return(Ok([repository |-> link, type |-> "readme",
                                  content |-> [text |-> f.reply.body, suffix |-> ""]]),
                              f.built, f.sent)
                  : f \in Fetch(api_url, Bodies)}

\* Option::unwrap_or("HEAD") at lines 212 and 254
TargetRef(branch) == unwrap_or(branch, "HEAD")

TreeLimit == 1000

\* lines 223-234 on the items of the tree
FileList(items) ==
    LET file_list == [i \in 1..Len(items) |->
                        IF items[i].type = "tree" THEN items[i].path \o "/" ELSE items[i].path]
    IN  IF Len(file_list) > TreeLimit
        THEN Append(SubSeq(file_list, 1, TreeLimit), "... [TRUNCATED]")
        ELSE file_list

TreeBodies ==
    {[tree |-> Some(<<[path |-> "src", type |-> "tree"], [path |-> "src/main.rs", type |-> "blob"]>>)],
     [tree |-> None]}

\* lines 209-237
get_file_tree(link, branch) ==
    LET p == parse_github_url(link)
        target_ref == TargetRef(branch)
    IN  IF ~p.ok THEN {Return(p, FALSE, <<>>)}
        ELSE LET api_url == "https://api.github.com/repos/" \o p.data.owner \o "/" \o p.data.repo
                            \o "/git/trees/" \o target_ref \o "?recursive=1"
             IN  {IF f.reply.kind = "nobuild" \/ f.reply.kind = "neterr"
                  THEN Return(Err(f.reply.text), f.built, f.sent)
                  ELSE IF f.reply.kind = "status"
                  THEN Return(Err("Error: " \o f.reply.text), f.built, f.sent)
                  ELSE IF f.reply.body.tree = None
                  THEN Return(Err("Invalid tree response"), f.built, f.sent)
                  ELSE Return(Ok([repository |-> link, ref |-> target_ref,
                                  files |-> FileList(f.reply.body.tree[1])]),
                              f.built, f.sent)
                  : f \in Fetch(api_url, TreeBodies)}

\* file_path.trim_start_matches('/') on the paths the model sends
CleanPath(file_path) == IF file_path = "/src/main.rs" THEN "src/main.rs" ELSE file_path

\* lines 251-275
get_file_content(link, file_path, branch) ==
    LET p == parse_github_url(link)
        target_ref == TargetRef(branch)
        clean_path == CleanPath(file_path)
    IN  IF ~p.ok THEN {Return(p, FALSE, <<>>)}
        ELSE LET api_url == "https://api.github.com/repos/" \o p.data.owner \o "/" \o p.data.repo
                            \o "/contents/" \o clean_path \o "?ref=" \o target_ref
             IN  {IF f.reply.kind = "nobuild" \/ f.reply.kind = "neterr"
                  THEN Return(Err(f.reply.text), f.built, f.sent)
                  ELSE IF f.reply.kind = "status"
                  THEN Return(Err("Gagal membaca file: " \o f.reply.text), f.built, f.sent)
                  ELSE IF f.reply.body.len > FileLimit
                  THEN IF FileLimit \in f.reply.body.inner
                       THEN Panic(f.built, f.sent)
                       ELSE Return(Ok([repository |-> link, path |-> clean_path,
                                       ref |-> target_ref, is_truncated |-> TRUE,
                                       content |-> [text |-> SliceTo(f.reply.body, FileLimit),
                                                    suffix |-> "... \n[TRUNCATED]"]]),
                                   f.built, f.sent)
                  ELSE Return(Ok([repository |-> link, path |-> clean_path,
                                  ref |-> target_ref, is_truncated |-> FALSE,
                                  content |-> [text |-> f.reply.body, suffix |-> ""]]),
                              f.built, f.sent)
                  : f \in Fetch(api_url, Bodies)}

\* urlencoding::encode
UrlEncode(q) == "urlencoded(" \o q \o ")"

\* lines 307-315 on the items of the body
SearchResults(items) ==
    [i \in 1..Len(items) |->
        [path |-> unwrap_or(items[i].path, "unknown"), url |-> unwrap_or(items[i].html_url, "")]]

SearchBodies ==
    {[items |-> Some(<<[path |-> Some("src/main.rs"), html_url |-> None]>>)],
     [items |-> None]}

\* lines 288-323
search_repository(link, query) ==
    LET p == parse_github_url(link)
    IN  IF ~p.ok THEN {Return(p, FALSE, <<>>)}
        ELSE LET q == query \o " repo:" \o p.data.owner \o "/" \o p.data.repo
                 api_url == "https://api.github.com/search/code?q=" \o UrlEncode(q)
                            \o "&per_page=10"
             IN  {IF f.reply.kind = "nobuild" \/ f.reply.kind = "neterr"
                  THEN Return(Err(f.reply.text), f.built, f.sent)
                  ELSE IF f.reply.kind = "status"
                  THEN Return(Err("Search API Error: " \o f.reply.text
                                  \o " (Search requires Auth & Valid Repo)"), f.built, f.sent)
                  ELSE IF f.reply.body.items = None
                  THEN Return(Err("No items found in search response"), f.built, f.sent)
                  ELSE LET results == SearchResults(f.reply.body.items[1])
                       IN  Return(Ok([repository |-> link, query |-> query,
                                      count_found |-> Len(results), results |-> results]),
                                  f.built, f.sent)
                  : f \in Fetch(api_url, SearchBodies)}

\* lines 457-469: the provider a registered name stands for, on its arguments
Invoke(c) ==
    CASE c.tool = "get_tags" -> get_tags(c.link, c.limit)
      [] c.tool = "get_changelog" -> get_changelog(c.link, c.v1, c.v2)
      [] c.tool = "get_readme" -> get_readme(c.link)
      [] c.tool = "get_file_tree" -> get_file_tree(c.link, c.branch)
      [] c.tool = "get_file_content" -> get_file_content(c.link, c.file_path, c.branch)
      [] c.tool = "search_repository" -> search_repository(c.link, c.query)

(***************************************************************************)
(* The lines the peer sends in the model.                                  *)
(***************************************************************************)
Rpc == Str("2.0")

GoodUrl == Str("https://github.com/o/r")

ToolCall(name, arguments, id) ==
    Obj([jsonrpc |-> Rpc, method |-> Str("tools/call"),
         params |-> Obj([name |-> Str(name), arguments |-> arguments]), id |-> id])

Requests ==
    { Obj([jsonrpc |-> Rpc, method |-> Str("initialize"), id |-> Num(1)]),
      Obj([jsonrpc |-> Str("1.0"), method |-> Str("initialize"), id |-> Str("1")]),
      Obj([jsonrpc |-> Rpc, method |-> Str("tools/list"), id |-> Num(2)]),
      Obj([jsonrpc |-> Rpc, method |-> Str("tools/list"), id |-> Str("2"),
           params |-> Obj([cursor |-> Str("x")])]),
      Obj([jsonrpc |-> Rpc, method |-> Str("foo"), id |-> Num(7)]),
      Obj([jsonrpc |-> Rpc, method |-> Str("notifications/initialized"), id |-> Num(9)]),
      ToolCall("nope", Obj(EmptyObj), Num(3)),
      Obj([jsonrpc |-> Rpc, method |-> Str("tools/call"), id |-> Num(4)]),
      Obj([jsonrpc |-> Rpc, method |-> Str("tools/call"),
           params |-> Obj([name |-> Num(7)]), id |-> Str("a")]),
      ToolCall("get_tags", Obj([url |-> GoodUrl]), Num(5)),
      ToolCall("get_tags", Obj([url |-> GoodUrl, limit |-> Num(1)]), Num(6)),
      ToolCall("get_tags", Obj(EmptyObj), Num(5)),
      ToolCall("get_changelog",
               Obj([url |-> GoodUrl, start_tag |-> Str("v1"), end_tag |-> Str("v2")]), Num(6)),
      ToolCall("get_readme", Obj([url |-> GoodUrl]), Num(6)),
      Obj([jsonrpc |-> Rpc, method |-> Str("tools/call"),
           params |-> Obj([name |-> Str("get_readme")]), id |-> Num(8)]),
      ToolCall("get_file_tree", Obj([url |-> GoodUrl]), Num(5)),
      ToolCall("get_file_content",
               Obj([url |-> GoodUrl, path |-> Str("/src/main.rs"), branch |-> Str("dev")]),
               Str("c")),
      ToolCall("search_repository",
               Obj([url |-> Str("https://gitlab.com/o/r"), query |-> Str("fn main")]), Num(6)),
      ToolCall("search_repository", Obj([url |-> Num(1), query |-> Obj(EmptyObj)]), Num(8)) }

Notifications ==
    { Obj([jsonrpc |-> Rpc, method |-> Str("notifications/initialized")]),
      Obj([jsonrpc |-> Rpc, method |-> Str("initialize")]),
      Obj([jsonrpc |-> Rpc, method |-> Str("tools/list"), id |-> Null]),
      Obj([jsonrpc |-> Rpc, method |-> Str("tools/call"),
           params |-> Obj([name |-> Str("get_readme"), arguments |-> Obj([url |-> GoodUrl])])]),
      Obj([jsonrpc |-> Rpc, method |-> Str("tools/call"),
           params |-> Obj([name |-> Str("nope")]), id |-> Null]),
      Obj([jsonrpc |-> Rpc, method |-> Str("foo")]) }

Unparseable ==
    { Raw("not json"),
      Num(7),
      Obj([jsonrpc |-> Rpc, id |-> Num(8)]),
      Obj([jsonrpc |-> Rpc, method |-> Num(1), id |-> Num(8)]),
      Obj([method |-> Str("initialize"), id |-> Num(8)]),
      Obj([jsonrpc |-> Num(2), method |-> Str("tools/list"), id |-> Num(8)]) }

Blank == {Raw(""), Raw("   ")}

Lines == Requests \cup Notifications \cup Unparseable \cup Blank

(***************************************************************************)
(* main (lines 335-487).                                                   *)
(***************************************************************************)
LoopInit ==
    /\ input = <<>>
    /\ pc = "read"
    /\ req = None
    /\ call = None
    /\ response = None
    /\ out = <<>>
    /\ calls = <<>>
    /\ diag = <<>>
    /\ exit = "running"

Init ==
    /\ LoopInit
    /\ remote = None
    /\ listing = None

\* the line being read is input'[Len(input')]
Reads(l) ==
    /\ pc = "read"
    /\ Len(input) < MaxLines
    /\ input' = Append(input, l)

Log(msg) == diag' = Append(diag, [line |-> Len(input'), msg |-> msg])

\* lines 352-356, None: the stream has ended, main returns
EndOfInput ==
    /\ pc = "read"
    /\ pc' = "done"
    /\ exit' = "ok"
    /\ UNCHANGED <<input, req, call, response, out, calls, diag, remote, listing>>

\* lines 353-356, Err(_) => break
ReadFails ==
    /\ Reads(ReadError)
    /\ pc' = "done"
    /\ exit' = "ok"
    /\ UNCHANGED <<req, call, response, out, calls, diag, remote, listing>>

\* line 358
SkipBlank ==
    \E l \in Lines :
        /\ Reads(l)
        /\ IsBlankLine(l)
        /\ UNCHANGED <<pc, req, call, response, out, calls, diag, exit, remote, listing>>

\* SkipInvalid that reports the parse error to the peer as an error envelope
SkipInvalidAnswers ==
    \E l \in Lines :
        /\ Reads(l)
        /\ ~IsBlankLine(l)
        /\ ~from_str(l).ok
        /\ Log("[ERROR] Invalid JSON")
        /\ out' = Append(out, [line |-> Len(input'),
                               env |-> [jsonrpc |-> "2.0", id |-> Null,
                                        error |-> [code |-> -32700, message |-> "Parse error"]]])
        /\ UNCHANGED <<pc, req, call, response, calls, exit, remote, listing>>

\* SkipInvalid with break in place of continue
SkipInvalidBreaks ==
    \E l \in Lines :
        /\ Reads(l)
        /\ ~IsBlankLine(l)
        /\ ~from_str(l).ok
        /\ Log("[ERROR] Invalid JSON")
        /\ pc' = "done"
        /\ exit' = "ok"
        /\ UNCHANGED <<req, call, response, out, calls, remote, listing>>

\* lines 361-367
SkipInvalid ==
    \E l \in Lines :
        /\ Reads(l)
        /\ ~IsBlankLine(l)
        /\ ~from_str(l).ok
        /\ Log("[ERROR] Invalid JSON")
        /\ UNCHANGED <<pc, req, call, response, out, calls, exit, remote, listing>>

\* Notification that still runs the tool a tools/call notification names
NotificationInvokes ==
    \E l \in Lines :
        /\ Reads(l)
        /\ ~IsBlankLine(l)
        /\ from_str(l).ok
        /\ from_str(l).req.id = None
        /\ IF from_str(l).req.method = "tools/call" /\ CallName(from_str(l).req) \in RegisteredTools
           THEN /\ req' = Some(from_str(l).req)
                /\ call' = Some(Extract(CallName(req'[1]), CallArgs(req'[1])))
                /\ calls' = Append(calls, [line |-> Len(input'), call |-> call'[1], outcome |-> None])
                /\ pc' = "provider"
                /\ UNCHANGED diag
           ELSE /\ IF from_str(l).req.method = "notifications/initialized"
                   THEN Log("[INFO] Client initialized successfully.")
                   ELSE UNCHANGED diag
                /\ UNCHANGED <<pc, req, call, calls>>
        /\ UNCHANGED <<response, out, exit, remote, listing>>

\* lines 369-375
Notification ==
    \E l \in Lines :
        /\ Reads(l)
        /\ ~IsBlankLine(l)
        /\ from_str(l).ok
        /\ from_str(l).req.id = None
        /\ IF from_str(l).req.method = "notifications/initialized"
           THEN Log("[INFO] Client initialized successfully.")
           ELSE UNCHANGED diag
        /\ UNCHANGED <<pc, req, call, response, out, calls, exit, remote, listing>>

\* a line that reaches the match at line 378
Accepts(l) ==
    /\ Reads(l)
    /\ ~IsBlankLine(l)
    /\ from_str(l).ok
    /\ from_str(l).req.id # None
    /\ req' = Some(from_str(l).req)

Responds(result) ==
    /\ response' = Some(Envelope(req'[1].id, result))
    /\ pc' = "write"

\* HandleInitialize that remembers the handshake and refuses a second one
HandleInitializeOnce ==
    \E l \in Lines :
        /\ Accepts(l)
        /\ req'[1].method = "initialize"
        /\ Responds(IF \E i \in 1..Len(input) :
                          from_str(input[i]).ok /\ from_str(input[i]).req.method = "initialize"
                    THEN ToolResult(Err("Already initialized"))
                    ELSE InitializeResult)
        /\ UNCHANGED <<call, out, calls, diag, exit, remote, listing>>

\* lines 380-388
HandleInitialize ==
    \E l \in Lines :
        /\ Accepts(l)
        /\ req'[1].method = "initialize"
        /\ Responds(InitializeResult)
        /\ UNCHANGED <<call, out, calls, diag, exit, remote, listing>>

\* HandleToolsList with a catalog that loses its first entry once a response is out
HandleToolsListShrinks ==
    \E l \in Lines :
        /\ Accepts(l)
        /\ req'[1].method = "tools/list"
        /\ Responds([tools |-> IF out = <<>> THEN ToolCatalog ELSE Tail(ToolCatalog)])
        /\ UNCHANGED <<call, out, calls, diag, exit, remote, listing>>

\* lines 391-450
HandleToolsList ==
    \E l \in Lines :
        /\ Accepts(l)
        /\ req'[1].method = "tools/list"
        /\ Responds([tools |-> ToolCatalog])
        /\ UNCHANGED <<call, out, calls, diag, exit, remote, listing>>

\* lines 453-457 and 470: no provider has that name
HandleUnknownTool ==
    \E l \in Lines :
        /\ Accepts(l)
        /\ req'[1].method = "tools/call"
        /\ CallName(req'[1]) \notin RegisteredTools
        /\ Responds(ToolResult(ToolNotFound(CallName(req'[1]))))
        /\ UNCHANGED <<call, out, calls, diag, exit, remote, listing>>

\* HandleToolsCall that refuses a call without a url instead of invoking
HandleToolsCallValidates ==
    \E l \in Lines :
        /\ Accepts(l)
        /\ req'[1].method = "tools/call"
        /\ CallName(req'[1]) \in RegisteredTools
        /\ IF StrArg(CallArgs(req'[1]), "url") = ""
           THEN /\ Responds(ToolResult(Err("Missing required argument: url")))
                /\ UNCHANGED <<call, calls, diag>>
           ELSE /\ call' = Some(Extract(CallName(req'[1]), CallArgs(req'[1])))
                /\ calls' = Append(calls, [line |-> Len(input'), call |-> call'[1], outcome |-> None])
                /\ Log("[DEBUG] " \o CallName(req'[1]))
                /\ pc' = "provider"
                /\ UNCHANGED response
        /\ UNCHANGED <<out, exit, remote, listing>>

\* lines 453-469: the provider is entered
HandleToolsCall ==
    \E l \in Lines :
        /\ Accepts(l)
        /\ req'[1].method = "tools/call"
        /\ CallName(req'[1]) \in RegisteredTools
        /\ call' = Some(Extract(CallName(req'[1]), CallArgs(req'[1])))
        /\ calls' = Append(calls, [line |-> Len(input'), call |-> call'[1], outcome |-> None])
        /\ Log("[DEBUG] " \o CallName(req'[1]))
        /\ pc' = "provider"
        /\ UNCHANGED <<response, out, exit, remote, listing>>

\* HandleOther reporting the unknown method as a failure
HandleOtherRejects ==
    \E l \in Lines :
        /\ Accepts(l)
        /\ req'[1].method \notin {"initialize", "tools/list", "tools/call"}
        /\ Responds(ToolResult(Err("Method not found")))
        /\ UNCHANGED <<call, out, calls, diag, exit, remote, listing>>

\* line 479
HandleOther ==
    \E l \in Lines :
        /\ Accepts(l)
        /\ req'[1].method \notin {"initialize", "tools/list", "tools/call"}
        /\ Responds(EmptyObj)
        /\ UNCHANGED <<call, out, calls, diag, exit, remote, listing>>

Outcome(o) == calls' = [calls EXCEPT ![Len(calls)].outcome = Some(o)]

\* ProviderReturns going back for the next line with the response still unwritten
ProviderReturnsUnwritten ==
    /\ pc = "provider"
    /\ \E o \in Invoke(call[1]) :
        /\ o.kind = "return"
        /\ Outcome(o)
        /\ response' = Some(Envelope(req[1].id, ToolResult(o.res)))
    /\ call' = None
    /\ pc' = "read"
    /\ UNCHANGED <<input, req, out, diag, exit, remote, listing>>

\* lines 473-476: the provider has returned
ProviderReturns ==
    /\ pc = "provider"
    /\ \E o \in Invoke(call[1]) :
        /\ o.kind = "return"
        /\ Outcome(o)
        /\ response' = Some(Envelope(req[1].id, ToolResult(o.res)))
    /\ call' = None
    /\ pc' = "write"
    /\ UNCHANGED <<input, req, out, diag, exit, remote, listing>>

\* lines 193 and 269 with 337-346: the slice panics, the hook logs, main unwinds
ProviderPanics ==
    /\ pc = "provider"
    /\ \E o \in Invoke(call[1]) :
        /\ o.kind = "panic"
        /\ Outcome(o)
    /\ diag' = Append(diag, [line |-> Len(input), msg |-> "[FATAL CRASH]"])
    /\ pc' = "done"
    /\ exit' = "panic"
    /\ UNCHANGED <<input, req, call, response, out, remote, listing>>

\* WriteResponse putting the line ahead of the earlier ones
WriteResponseFirst ==
    /\ pc = "write"
    /\ out' = <<[line |-> Len(input), env |-> response[1]]>> \o out
    /\ response' = None
    /\ req' = None
    /\ pc' = "read"
    /\ UNCHANGED <<input, call, calls, diag, exit, remote, listing>>

\* lines 483-485
WriteResponse ==
    /\ pc = "write"
    /\ out' = Append(out, [line |-> Len(input), env |-> response[1]])
    /\ response' = None
    /\ req' = None
    /\ pc' = "read"
    /\ UNCHANGED <<input, call, calls, diag, exit, remote, listing>>

Next ==
    \/ EndOfInput
    \/ ReadFails
    \/ SkipBlank
    \/ SkipInvalid
    \/ Notification
    \/ HandleInitialize
    \/ HandleToolsList
    \/ HandleUnknownTool
    \/ HandleToolsCall
    \/ HandleOther
    \/ ProviderReturns
    \/ ProviderPanics
    \/ WriteResponse

Spec == Init /\ [][Next]_vars

(***************************************************************************)
(* main with a stdout that can break: println! (line 484) panics when the  *)
(* write fails, flush().unwrap() (line 485) when the flush does.           *)
(***************************************************************************)
\* WriteFails with the failure ignored: the line is lost and the loop goes on
WriteFailsIgnored ==
    /\ pc = "write"
    /\ diag' = Append(diag, [line |-> Len(input), msg |-> "[FATAL CRASH] failed printing to stdout"])
    /\ response' = None
    /\ req' = None
    /\ pc' = "read"
    /\ UNCHANGED <<input, call, out, calls, exit, remote, listing>>

\* lines 484-485 with 337-346: the write fails, the hook logs, main unwinds
WriteFails ==
    /\ pc = "write"
    /\ diag' = Append(diag, [line |-> Len(input), msg |-> "[FATAL CRASH] failed printing to stdout"])
    /\ pc' = "done"
    /\ exit' = "panic"
    /\ UNCHANGED <<input, req, call, response, out, calls, remote, listing>>

NextIO ==
    \/ Next
    \/ WriteFails

SpecIO == Init /\ [][NextIO]_vars

(***************************************************************************)
(* get_tags as a function: the remote's tags and the limit are drawn, the  *)
(* listing is what lines 101-133 make of git's output.                     *)
(***************************************************************************)
TagUniverse ==
    { <<"v", "1", ".", "2", ".", "0">>,
      <<"1", ".", "2", ".", "0">>,
      <<"v", "1", ".", "1", "0", ".", "0">>,
      <<"v", "2", ".", "0", ".", "0", "-", "r", "c", "1">>,
      <<"v", "2", ".", "0", ".", "0">>,
      <<"v", "v", "3", ".", "0", ".", "0">>,
      <<"l", "a", "t", "e", "s", "t">>,
      <<"b", "e", "t", "a">>,
      <<"v", "1">> }

\* a remote has every ref once
TagLists ==
    {ts \in UNION {[1..k -> TagUniverse] : k \in 0..MaxTags} :
        \A i, j \in 1..Len(ts) : i # j => ts[i] # ts[j]}

Limits == {None} \cup {Some(k) : k \in 0..(MaxTags + 1)}

InitTags ==
    /\ LoopInit
    /\ remote \in {Some([tags |-> ts, limit |-> lim]) : ts \in TagLists, lim \in Limits}
    /\ listing = None

ListTags ==
    /\ remote # None
    /\ listing = None
    /\ listing' = Some(TagListing("https://github.com/o/r", remote[1].limit,
                                  [i \in 1..Len(remote[1].tags) |-> LsRemoteLine(remote[1].tags[i])]))
    /\ UNCHANGED <<loopVars, remote>>

NextTags == ListTags

SpecTags == InitTags /\ [][NextTags]_vars

(***************************************************************************)
(* The optional arguments on their way from the wire to the providers      *)
(* (lines 454-465): the peer writes an arguments object with or without    *)
(* limit and branch; get_tags runs on it against a remote with the given   *)
(* tags, then get_file_tree does.                                          *)
(***************************************************************************)
Branches == {None, Some("dev")}

\* the arguments object of a peer that wants `lim` tags of branch `br`
ArgsOf(lim, br) ==
    Obj([url |-> GoodUrl]
        @@ (IF lim = None THEN EmptyObj ELSE [limit |-> Num(lim[1])])
        @@ (IF br = None THEN EmptyObj ELSE [branch |-> Str(br[1])]))

InitArgs ==
    /\ LoopInit
    /\ remote \in {Some([tags |-> ts, limit |-> lim, branch |-> br, args |-> ArgsOf(lim, br)]) :
                      ts \in TagLists, lim \in Limits, br \in Branches}
    /\ listing = None

\* lines 458-462 with 101-133
ListTagsOfArgs ==
    /\ listing = None
    /\ LET c == Extract("get_tags", remote[1].args)
       IN  listing' = Some(TagListing(c.link, c.limit,
                                      [i \in 1..Len(remote[1].tags) |-> LsRemoteLine(remote[1].tags[i])]))
    /\ UNCHANGED <<loopVars, remote>>

\* line 465 with 209-237
TreeOfArgs ==
    /\ listing # None
    /\ calls = <<>>
    /\ LET c == Extract("get_file_tree", remote[1].args)
       IN  \E o \in get_file_tree(c.link, c.branch) :
               calls' = <<[line |-> 0, call |-> c, outcome |-> Some(o)]>>
    /\ UNCHANGED <<input, pc, req, call, response, out, diag, exit, remote, listing>>

NextArgs ==
    \/ ListTagsOfArgs
    \/ TreeOfArgs

SpecArgs == InitArgs /\ [][NextArgs]_vars

(***************************************************************************)
(* The url argument on its way to the five providers that ask the GitHub   *)
(* API (lines 463-468, each starting with parse_github_url): main has read *)
(* one tools/call line and entered the provider; the provider comes back   *)
(* or panics, the response is written, the stream ends.                    *)
(***************************************************************************)
ApiTools ==
    {"get_changelog", "get_readme", "get_file_tree", "get_file_content", "search_repository"}

Urls ==
    {"", "not a url", "https://github.com/o/r", "https://github.com/o/r.git",
     "https://github.com/o", "https://github.com/o/r/", "https://gitlab.com/o/r",
     "https://notgithub.com/o/r", "https://example.com/github.com/o/r"}

\* what the peer writes for url: nothing, a number, null, or a string
UrlValues == {None, Some(Num(1)), Some(Null)} \cup {Some(Str(u)) : u \in Urls}

UrlCallLine(tool, u) ==
    ToolCall(tool, Obj(IF u = None THEN EmptyObj ELSE [url |-> u[1]]), Num(1))

\* the state HandleToolsCall leaves after the first line
InitUrl ==
    \E tool \in ApiTools, u \in UrlValues :
        LET l == UrlCallLine(tool, u)
            r == from_str(l).req
            c == Extract(CallName(r), CallArgs(r))
        IN  /\ input = <<l>>
            /\ pc = "provider"
            /\ req = Some(r)
            /\ call = Some(c)
            /\ response = None
            /\ out = <<>>
            /\ calls = <<[line |-> 1, call |-> c, outcome |-> None]>>
            /\ diag = <<[line |-> 1, msg |-> "[DEBUG] " \o CallName(r)]>>
            /\ exit = "running"
            /\ remote = None
            /\ listing = None

NextUrl ==
    \/ ProviderReturns
    \/ ProviderPanics
    \/ WriteResponse
    \/ EndOfInput

SpecUrl == InitUrl /\ [][NextUrl]_vars

(***************************************************************************)
(* Properties. The vocabulary below reads the wire and the output only: it *)
(* classifies a line by the members the peer wrote, not by what main made  *)
(* of it.                                                                  *)
(***************************************************************************)
HasMember(l, key) == l.t = "obj" /\ key \in DOMAIN l.m

\* a JSON object with a string jsonrpc and a string method
WellFormed(l) ==
    /\ HasMember(l, "jsonrpc") /\ l.m.jsonrpc.t = "str"
    /\ HasMember(l, "method") /\ l.m.method.t = "str"

HasId(l) == HasMember(l, "id") /\ l.m.id.t # "null"

IsCallLine(l) == WellFormed(l) /\ HasId(l)

IsNotificationLine(l) == WellFormed(l) /\ ~HasId(l)

MethodIs(l, method) == WellFormed(l) /\ l.m.method.s = method

\* the tool name a tools/call line carries: "" when params.name is no string
NameOnWire(l) ==
    IF HasMember(l, "params") /\ HasMember(l.m.params, "name") /\ l.m.params.m.name.t = "str"
    THEN l.m.params.m.name.s
    ELSE ""

\* the iteration that read line i is over
Finished(i) == i < Len(input) \/ pc \in {"read", "done"}

\* the output lines that answer line i
Answers(i) == {k \in 1..Len(out) : out[k].line = i}

Invocations(i) == {k \in 1..Len(calls) : calls[k].line = i}

ErrorResult(text) == [isError |-> TRUE, content |-> <<[type |-> "text", text |-> text]>>]

\* C1: every request with a non-null id gets exactly one response line, and the
\* response's id is the request's id, same JSON type and value.
C1_EveryCallAnsweredOnce ==
    \A i \in 1..Len(input) :
        (IsCallLine(input[i]) /\ Finished(i)) =>
            /\ Cardinality(Answers(i)) = 1
            /\ \A k \in Answers(i) : out[k].env.id = input[i].m.id

\* C2: a request whose id is null or absent gets no response line, whatever its
\* method; none is ever pending for it either.
C2_NotificationsUnanswered ==
    \A i \in 1..Len(input) :
        IsNotificationLine(input[i]) =>
            /\ Answers(i) = {}
            /\ Invocations(i) = {}
            /\ (i = Len(input) => (response = None /\ pc \in {"read", "done"}))

C2_Witness ==
    /\ Len(input) = 2
    /\ MethodIs(input[1], "tools/call") /\ IsNotificationLine(input[1])
    /\ HasMember(input[1], "id")
    /\ Len(out) = 1 /\ out[1].line = 2

\* C3: responses leave in the order their requests arrived, one at a time: the
\* ids on the output are the ids of the answered lines in input order, and a
\* response is written before the next line is read.
C3_ResponsesInOrder ==
    /\ \A k \in 1..Len(out) : out[k].env.id = input[out[k].line].m.id
    /\ \A j, k \in 1..Len(out) : j < k => out[j].line < out[k].line
    /\ \A k \in 1..Len(out) : IsCallLine(input[out[k].line])
    /\ (pc = "read" => response = None)
    /\ (response # None => Answers(Len(input)) = {})

C3_Witness ==
    /\ Len(out) = 2
    /\ out[1].env.id = Num(5) /\ out[1].line = 1
    /\ out[2].env.id = Num(6) /\ out[2].line = 2

\* a line that is no structured data, lacks method, or is blank
IsBadLine(l) == l.t = "raw" \/ l.t \notin {"obj", "ioerr"} \/ (l.t = "obj" /\ ~HasMember(l, "method"))

\* C4: reading a bad line writes nothing, invokes nothing and leaves main at
\* the top of the loop, still running, so the lines after it are handled as
\* without it; a request that follows a bad line is answered.
C4_BadLineSkipped ==
    /\ [][(Len(input') = Len(input) + 1 /\ IsBadLine(input'[Len(input')])) =>
            /\ pc' = "read" /\ exit' = "running"
            /\ out' = out /\ calls' = calls
            /\ response' = None /\ req' = None /\ call' = None]_vars
    /\ [](\A i \in 1..Len(input) :
            (i > 1 /\ IsBadLine(input[i - 1]) /\ IsCallLine(input[i]) /\ Finished(i)
             /\ exit # "panic") => Answers(i) # {})

C4_Witness ==
    /\ Len(input) = 2
    /\ input[1] = Raw("not json")
    /\ Len(out) = 1 /\ out[1].line = 2

\* C5: no fault raised while a line is processed ends the process: main never
\* unwinds, so the lines after the fault are still read.
C5_FaultsAreContained == exit # "panic"

\* C6: a tools/call whose params.name is no registered tool is answered with
\* isError true and the text "Tool 'X' not found" (X = "" when the name is
\* absent or no string), without a provider being invoked, and main goes on.
C6_UnknownToolReported ==
    \A i \in 1..Len(input) :
        (IsCallLine(input[i]) /\ MethodIs(input[i], "tools/call")
         /\ NameOnWire(input[i]) \notin
               {"get_tags", "get_changelog", "get_readme", "get_file_tree",
                "get_file_content", "search_repository"}) =>
            /\ Invocations(i) = {}
            /\ Finished(i) =>
                /\ Cardinality(Answers(i)) = 1
                /\ \A k \in Answers(i) :
                      out[k].env.result =
                          ErrorResult("Tool '" \o NameOnWire(input[i]) \o "' not found")
            /\ (i = Len(input) => exit # "panic")

C6_Witness ==
    /\ Len(out) = 2
    /\ out[1].env.result = ErrorResult("Tool 'nope' not found")
    /\ out[2].env.result = ErrorResult("Tool '' not found")
    /\ pc = "read"

\* C7: when the provider returns a failure the response is the error-flagged
\* result with the provider's text; when it returns a payload the response
\* carries the payload's JSON text and no error flag. The provider is invoked
\* once per request, and main goes on in both cases.
C7_ProviderOutcomeMapped ==
    /\ \A i \in 1..Len(input) : Cardinality(Invocations(i)) <= 1
    /\ \A c \in 1..Len(calls) :
          (calls[c].outcome # None /\ calls[c].outcome[1].kind = "return") =>
              /\ exit = "panic" => calls[c].line # Len(input)
              /\ Finished(calls[c].line) =>
                    /\ Cardinality(Answers(calls[c].line)) = 1
                    /\ \A k \in Answers(calls[c].line) :
                          LET res == calls[c].outcome[1].res
                              result == out[k].env.result
                          IN  IF res.ok
                              THEN /\ DOMAIN result = {"content"}
                                   /\ Len(result.content) = 1
                                   /\ result.content[1].type = "text"
                                   /\ result.content[1].text = [json |-> res.data]
                              ELSE /\ DOMAIN result = {"isError", "content"}
                                   /\ result = ErrorResult(res.err)

C7_Witness ==
    /\ Len(calls) = 2 /\ Len(out) = 2 /\ pc = "read"
    /\ calls[1].outcome[1].res.ok
    /\ ~calls[2].outcome[1].res.ok
    /\ calls[2].outcome[1].sent # <<>>

CatalogNames ==
    <<"get_tags", "get_changelog", "get_readme", "get_file_tree", "get_file_content",
      "search_repository">>

\* C8: every tools/list response carries the six descriptors in the same
\* order, and any two tools/list responses of a run carry the same result.
C8_CatalogFixed ==
    /\ \A k \in 1..Len(out) :
          MethodIs(input[out[k].line], "tools/list") =>
              /\ DOMAIN out[k].env.result = {"tools"}
              /\ Len(out[k].env.result.tools) = 6
              /\ \A t \in 1..6 : out[k].env.result.tools[t].name = CatalogNames[t]
    /\ \A j, k \in 1..Len(out) :
          (MethodIs(input[out[j].line], "tools/list") /\ MethodIs(input[out[k].line], "tools/list"))
              => out[j].env.result = out[k].env.result

C8_Witness ==
    /\ Len(out) = 2
    /\ MethodIs(input[1], "tools/list") /\ ~HasMember(input[1], "params")
    /\ MethodIs(input[2], "tools/list") /\ HasMember(input[2], "params")

\* C9: a request with an id and a method other than initialize, tools/list and
\* tools/call is answered with an empty result object: no error flag, no
\* top-level error.
C9_UnknownMethodEmptyResult ==
    \A i \in 1..Len(input) :
        (IsCallLine(input[i]) /\ Finished(i)
         /\ input[i].m.method.s \notin {"initialize", "tools/list", "tools/call"}) =>
            /\ Cardinality(Answers(i)) = 1
            /\ \A k \in Answers(i) :
                  /\ DOMAIN out[k].env = {"jsonrpc", "id", "result"}
                  /\ DOMAIN out[k].env.result = {}

C9_Witness ==
    /\ Len(out) = 2
    /\ MethodIs(input[1], "foo")
    /\ MethodIs(input[2], "notifications/initialized")

\* a tag that is a semantic version, bare or behind one "v"
IsVersionTag(tag) ==
    \/ VersionParse(tag).ok
    \/ (tag # <<>> /\ tag[1] = "v" /\ VersionParse(Tail(tag)).ok)

\* a tag that is a semantic version once every leading "v" is taken off
IsVersionTagAnyV(tag) == VersionParse(trim_start_matches(tag, "v")).ok

VersionOf(tag) == VersionParse(trim_start_matches(tag, "v"))

PlaceIn(tags, tag) == CHOOSE i \in 1..Len(tags) : tags[i] = tag

\* without a limit the listing holds the remote's tags, each once
ListsEveryTag ==
    listing # None /\ remote[1].limit = None =>
        /\ Len(listing[1].tags) = Len(remote[1].tags)
        /\ \A i \in 1..Len(remote[1].tags) :
              \E j \in 1..Len(listing[1].tags) : listing[1].tags[j] = remote[1].tags[i]

\* C10 as stated: version tags (bare or behind one "v") come ahead of all
\* others and are strictly descending as versions; the others are descending
\* in plain lexical order.
C10_StrictlyDescending ==
    listing # None =>
        LET ts == listing[1].tags
        IN  \A i, j \in 1..Len(ts) :
                i < j =>
                    /\ IsVersionTag(ts[j]) => IsVersionTag(ts[i])
                    /\ (IsVersionTag(ts[i]) /\ IsVersionTag(ts[j])) =>
                           VersionCmp(VersionOf(ts[i]), VersionOf(ts[j])) = "Greater"
                    /\ (~IsVersionTag(ts[i]) /\ ~IsVersionTag(ts[j])) =>
                           StrCmp(ts[i], ts[j]) \in {"Greater", "Equal"}

\* C10, amended: tags that are versions once every leading "v" is taken off
\* come ahead of all others and are descending as versions, tags of one and
\* the same version (v1.2.0 and 1.2.0) in the order git gave them; the others
\* are descending in plain lexical order; no tag is lost or added.
C10_TagsSorted ==
    /\ ListsEveryTag
    /\ listing # None =>
        LET ts == listing[1].tags
        IN  \A i, j \in 1..Len(ts) :
                i < j =>
                    /\ IsVersionTagAnyV(ts[j]) => IsVersionTagAnyV(ts[i])
                    /\ (IsVersionTagAnyV(ts[i]) /\ IsVersionTagAnyV(ts[j])) =>
                           /\ VersionCmp(VersionOf(ts[i]), VersionOf(ts[j])) \in {"Greater", "Equal"}
                           /\ VersionCmp(VersionOf(ts[i]), VersionOf(ts[j])) = "Equal" =>
                                  PlaceIn(remote[1].tags, ts[i]) < PlaceIn(remote[1].tags, ts[j])
                    /\ (~IsVersionTagAnyV(ts[i]) /\ ~IsVersionTagAnyV(ts[j])) =>
                           StrCmp(ts[i], ts[j]) \in {"Greater", "Equal"}

C10_Witness ==
    /\ listing # None
    /\ remote[1].tags = << <<"l", "a", "t", "e", "s", "t">>,
                           <<"v", "1", ".", "2", ".", "0">>,
                           <<"v", "1", ".", "1", "0", ".", "0">> >>
    /\ listing[1].tags = << <<"v", "1", ".", "1", "0", ".", "0">>,
                            <<"v", "1", ".", "2", ".", "0">>,
                            <<"l", "a", "t", "e", "s", "t">> >>

\* the last thing on the diagnostic channel is the report of a failed write
WriteFailed == diag # <<>> /\ diag[Len(diag)].msg = "[FATAL CRASH] failed printing to stdout"

\* C11: a response that cannot be written ends the process, and nothing is read
\* or written after that; a provider that returns a failure does not end it:
\* its response is built and main goes on to write it.
C11_WriteFailureFatal ==
    /\ [][(pc = "write" /\ out' = out) => (exit' = "panic" /\ pc' = "done" /\ input' = input)]_vars
    /\ [][exit # "running" => (input' = input /\ out' = out /\ calls' = calls)]_vars
    /\ [][(pc = "provider" /\ calls'[Len(calls')].outcome # None
           /\ calls'[Len(calls')].outcome[1].kind = "return")
              => (exit' = "running" /\ pc' = "write" /\ response' # None)]_vars
    /\ [](WriteFailed => (exit = "panic" /\ pc = "done"))

C11_Witness ==
    /\ WriteFailed
    /\ exit = "panic"
    /\ Len(input) = 2 /\ Len(out) = 1
    /\ Len(calls) = 1 /\ calls[1].line = 1 /\ ~calls[1].outcome[1].res.ok
    /\ "isError" \in DOMAIN out[1].env.result
    /\ IsCallLine(input[2])

\* C12: when main has stopped it has returned with success, and every request
\* with a non-null id that was read has its response.
C12_EndsWithSuccess ==
    pc = "done" =>
        /\ exit = "ok"
        /\ \A i \in 1..Len(input) : IsCallLine(input[i]) => Cardinality(Answers(i)) = 1

\* every provider call made for line i has returned
Returned(i) ==
    \A k \in Invocations(i) :
        calls[k].outcome # None /\ calls[k].outcome[1].kind = "return"

HasMethodAndId(l) == HasMember(l, "method") /\ l.m.method.t = "str" /\ HasId(l)

HasStringTag(l) == HasMember(l, "jsonrpc") /\ l.m.jsonrpc.t = "str"

InvalidJsonLogged(i) ==
    \E k \in 1..Len(diag) : diag[k].line = i /\ diag[k].msg = "[ERROR] Invalid JSON"

IsToolCallLine(l) ==
    IsCallLine(l) /\ MethodIs(l, "tools/call") /\ NameOnWire(l) \in RegisteredTools

\* the string the peer wrote for a property of arguments, "" when arguments or
\* the property is absent or the property is no string
WireString(l, key) ==
    IF /\ HasMember(l, "params") /\ HasMember(l.m.params, "arguments")
       /\ HasMember(l.m.params.m.arguments, key)
       /\ l.m.params.m.arguments.m[key].t = "str"
    THEN l.m.params.m.arguments.m[key].s
    ELSE ""

\* the required properties of each tool's inputSchema
RequiredOf(name) ==
    CASE name = "get_tags" -> {"url"}
      [] name = "get_changelog" -> {"url", "start_tag", "end_tag"}
      [] name = "get_readme" -> {"url"}
      [] name = "get_file_tree" -> {"url"}
      [] name = "get_file_content" -> {"url", "path"}
      [] name = "search_repository" -> {"url", "query"}

\* the value a provider received for a property
Received(c, key) ==
    CASE key = "url" -> c.link
      [] key = "start_tag" -> c.v1
      [] key = "end_tag" -> c.v2
      [] key = "path" -> c.file_path
      [] key = "query" -> c.query

\* the result member that reports a provider's return value
ResultOf(res) ==
    IF res.ok
    THEN [content |-> <<[type |-> "text", text |-> [json |-> res.data]]>>]
    ELSE ErrorResult(res.err)

\* C15: a tools/call request naming a registered tool always has its provider
\* invoked exactly once, with every required property as written on the wire
\* or "" when it is absent, arguments is absent, or it is no string; nothing
\* is written for it before the provider is done, and its response is the
\* provider's return value.
C15_ArgumentsDefaulted ==
    \A i \in 1..Len(input) :
        IsToolCallLine(input[i]) =>
            /\ Cardinality(Invocations(i)) = 1
            /\ \A k \in Invocations(i) :
                /\ calls[k].call.tool = NameOnWire(input[i])
                /\ \A key \in RequiredOf(NameOnWire(input[i])) :
                       Received(calls[k].call, key) = WireString(input[i], key)
                /\ (calls[k].outcome = None) => (pc = "provider" /\ i = Len(input) /\ response = None)
                /\ \A a \in Answers(i) :
                       /\ calls[k].outcome # None /\ calls[k].outcome[1].kind = "return"
                       /\ out[a].env.result = ResultOf(calls[k].outcome[1].res)
            /\ (Finished(i) /\ Returned(i)) => Cardinality(Answers(i)) = 1

C15_Witness ==
    /\ Len(input) = 2 /\ pc = "read"
    /\ IsToolCallLine(input[1]) /\ ~HasMember(input[1].m.params, "arguments")
    /\ IsToolCallLine(input[2]) /\ HasMember(input[2].m.params, "arguments")
    /\ HasMember(input[2].m.params.m.arguments, "url")
    /\ input[2].m.params.m.arguments.m.url.t = "num"
    /\ Len(calls) = 2 /\ calls[1].call.link = "" /\ calls[2].call.link = ""
    /\ calls[2].call.query = ""
    /\ Len(out) = 2 /\ out[2].env.result = ErrorResult("Invalid GitHub URL")

\* the place tag a has ahead of tag b in the order of the listing: versions
\* (every leading "v" taken off) first and descending, equal versions as git
\* gave them, then the other tags descending as text
Precedes(a, b, given) ==
    IF IsVersionTagAnyV(a) /\ IsVersionTagAnyV(b)
    THEN \/ VersionCmp(VersionOf(a), VersionOf(b)) = "Greater"
         \/ /\ VersionCmp(VersionOf(a), VersionOf(b)) = "Equal"
            /\ PlaceIn(given, a) < PlaceIn(given, b)
    ELSE IF IsVersionTagAnyV(a) \/ IsVersionTagAnyV(b)
    THEN IsVersionTagAnyV(a)
    ELSE StrCmp(a, b) = "Greater"

Min(a, b) == IF a < b THEN a ELSE b

TagsIn(ts) == {ts[i] : i \in 1..Len(ts)}

\* C16: without limit get_tags returns every tag of the remote; with limit n
\* it returns min(n, total) tags, in order, and every tag left out comes after
\* every tag returned in that order (n = 0 returns none); count is the number
\* of tags returned. get_file_tree without branch asks for the tree of HEAD
\* and reports ref HEAD.
C16_LimitAndDefaultRef ==
    /\ listing # None =>
        LET ts == listing[1].tags
            given == remote[1].tags
            n == remote[1].limit
        IN  /\ TagsIn(ts) \subseteq TagsIn(given)
            /\ \A i, j \in 1..Len(ts) : i < j => Precedes(ts[i], ts[j], given)
            /\ Len(ts) = (IF n = None THEN Len(given) ELSE Min(n[1], Len(given)))
            /\ \A d \in TagsIn(given) \ TagsIn(ts) : \A i \in 1..Len(ts) : Precedes(ts[i], d, given)
            /\ listing[1].count = Len(ts)
    /\ \A k \in 1..Len(calls) :
        (calls[k].call.tool = "get_file_tree" /\ remote # None /\ remote[1].branch = None) =>
            /\ calls[k].call.branch = None
            /\ \A u \in 1..Len(calls[k].outcome[1].sent) :
                   calls[k].outcome[1].sent[u] = "https://api.github.com/repos/o/r/git/trees/HEAD?recursive=1"
            /\ calls[k].outcome[1].res.ok => calls[k].outcome[1].res.data.ref = "HEAD"

C16_Witness ==
    /\ listing # None /\ Len(calls) = 1
    /\ remote[1].limit = Some(2) /\ Len(remote[1].tags) = 3
    /\ ~HasMember(remote[1].args, "branch") /\ HasMember(remote[1].args, "limit")
    /\ remote[1].tags[1] = <<"l", "a", "t", "e", "s", "t">>
    /\ Len(listing[1].tags) = 2 /\ listing[1].count = 2
    /\ <<"l", "a", "t", "e", "s", "t">> \notin TagsIn(listing[1].tags)
    /\ calls[1].outcome[1].res.ok /\ calls[1].outcome[1].res.data.ref = "HEAD"
    /\ calls[1].outcome[1].sent # <<>>

\* the provider calls that have not come back
InFlight == {k \in 1..Len(calls) : calls[k].outcome = None}

\* C17: a line is read only when nothing is in flight: no request is held, no
\* response is unwritten, no provider is running, and the request read before
\* has its response on the output. At any time at most one provider call is
\* running, for the line read last, and at most one response is unwritten,
\* for the line read last.
C17_StrictlySequential ==
    /\ [][Len(input') = Len(input) + 1 =>
            /\ pc = "read" /\ req = None /\ call = None /\ response = None
            /\ InFlight = {}
            /\ \A i \in 1..Len(input) :
                   /\ IsCallLine(input[i]) => Cardinality(Answers(i)) = 1
                   /\ \A k \in Invocations(i) : calls[k].outcome[1].kind = "return"
            /\ Len(input') = Len(input) + 1 /\ SubSeq(input', 1, Len(input)) = input]_vars
    /\ [](/\ Cardinality(InFlight) <= 1
          /\ \A k \in InFlight : k = Len(calls) /\ calls[k].line = Len(input)
          /\ (InFlight # {}) <=> (pc = "provider")
          /\ (pc = "provider") => (call # None)
          /\ (call # None) => (pc = "provider" \/ exit = "panic")
          /\ (pc = "provider") => (response = None /\ req # None /\ Answers(Len(input)) = {})
          /\ (response # None) => (pc = "write" \/ exit = "panic")
          /\ (pc = "write") => (response # None /\ req # None /\ Answers(Len(input)) = {}))

C17_Witness ==
    /\ Len(input) = 2 /\ pc = "provider"
    /\ IsToolCallLine(input[1]) /\ IsToolCallLine(input[2])
    /\ Len(calls) = 2 /\ calls[1].outcome # None /\ calls[1].outcome[1].kind = "return"
    /\ InFlight = {2}
    /\ Len(out) = 1 /\ out[1].line = 1

\* what the provider called for line i came back with, None when none was
\* called or it has not come back
OutcomeAt(i) ==
    IF Invocations(i) = {} THEN None ELSE calls[CHOOSE k \in Invocations(i) : TRUE].outcome

\* the response is the one its own line and its provider's outcome call for
AnswerFits(k) ==
    LET l == input[out[k].line]
        result == out[k].env.result
    IN  /\ IsCallLine(l)
        /\ out[k].env.id = l.m.id
        /\ CASE MethodIs(l, "initialize") ->
                  result = [protocolVersion |-> "2024-11-05",
                            capabilities |-> [tools |-> <<>>],
                            serverInfo |-> [name |-> "rust-git-mcp", version |-> "0.2.0"]]
             [] MethodIs(l, "tools/list") ->
                  /\ DOMAIN result = {"tools"}
                  /\ Len(result.tools) = 6
                  /\ \A t \in 1..6 : result.tools[t].name = CatalogNames[t]
             [] MethodIs(l, "tools/call") /\ NameOnWire(l) \notin RegisteredTools ->
                  result = ErrorResult("Tool '" \o NameOnWire(l) \o "' not found")
             [] MethodIs(l, "tools/call") /\ NameOnWire(l) \in RegisteredTools ->
                  /\ OutcomeAt(out[k].line) # None
                  /\ OutcomeAt(out[k].line)[1].kind = "return"
                  /\ result = ResultOf(OutcomeAt(out[k].line)[1].res)
             [] OTHER -> DOMAIN result = {}

\* C18: a response is determined by its request's line and by what the
\* provider returned, wherever the line stands in the input: it is the
\* response that line and that outcome call for; two requests with the same
\* line and the same provider outcome get the same response; the same line is
\* passed to the provider with the same arguments.
C18_NoStateCarriedOver ==
    /\ \A k \in 1..Len(out) : AnswerFits(k)
    /\ \A j, k \in 1..Len(out) :
          (input[out[j].line] = input[out[k].line]
           /\ OutcomeAt(out[j].line) = OutcomeAt(out[k].line)) => out[j].env = out[k].env
    /\ \A j, k \in 1..Len(calls) :
          input[calls[j].line] = input[calls[k].line] => calls[j].call = calls[k].call

C18_Witness ==
    /\ Len(input) = 2 /\ pc = "read"
    /\ MethodIs(input[1], "initialize") /\ input[2] = input[1]
    /\ Len(out) = 2 /\ out[1].line = 1 /\ out[2].line = 2
    /\ out[1].env = out[2].env
    /\ "serverInfo" \in DOMAIN out[2].env.result

\* C19: every provider call belongs to a tools/call request with a non-null id
\* that names a registered tool, and is the call of the tool it names; a line
\* has at most one; a notification (a tools/call one too), an unknown tool,
\* another method, a blank or unparseable line has none, and main is never
\* inside a provider for such a line.
C19_ProviderOnlyForToolCalls ==
    /\ \A k \in 1..Len(calls) :
          /\ calls[k].line \in 1..Len(input)
          /\ IsToolCallLine(input[calls[k].line])
          /\ calls[k].call.tool = NameOnWire(input[calls[k].line])
    /\ \A i \in 1..Len(input) :
          /\ Cardinality(Invocations(i)) <= 1
          /\ (\/ IsNotificationLine(input[i])
              \/ ~WellFormed(input[i])
              \/ ~MethodIs(input[i], "tools/call")
              \/ NameOnWire(input[i]) \notin RegisteredTools) => Invocations(i) = {}
    /\ (pc = "provider" \/ call # None) => (input # <<>> /\ IsToolCallLine(input[Len(input)]))

C19_Witness ==
    /\ Len(input) = 2 /\ pc = "read"
    /\ IsNotificationLine(input[1]) /\ MethodIs(input[1], "tools/call")
    /\ NameOnWire(input[1]) \in RegisteredTools
    /\ IsToolCallLine(input[2])
    /\ Len(calls) = 1 /\ calls[1].line = 2 /\ calls[1].outcome # None
    /\ Len(out) = 1

\* C20: every line on the output is the envelope of a request that parsed:
\* members jsonrpc "2.0", id and result and no other, the id being the
\* request's non-null id; isError occurs only in the result of a tools/call
\* response; a line that did not parse, a blank line, a failed read and a
\* failed write put nothing on the output.
C20_OnlyResponseEnvelopes ==
    /\ \A k \in 1..Len(out) :
          /\ DOMAIN out[k].env = {"jsonrpc", "id", "result"}
          /\ out[k].env.jsonrpc = "2.0"
          /\ out[k].line \in 1..Len(input)
          /\ WellFormed(input[out[k].line]) /\ HasId(input[out[k].line])
          /\ out[k].env.id = input[out[k].line].m.id
          /\ "error" \notin DOMAIN out[k].env.result
          /\ "isError" \in DOMAIN out[k].env.result => MethodIs(input[out[k].line], "tools/call")
    /\ \A i \in 1..Len(input) :
          (~WellFormed(input[i]) \/ InvalidJsonLogged(i)) => Answers(i) = {}
    /\ WriteFailed => (Answers(Len(input)) = {} /\ Cardinality({i \in 1..Len(input) : IsCallLine(input[i])}) = Len(out) + 1)

C20_Witness ==
    /\ Len(input) = 2 /\ pc = "read"
    /\ input[1].t = "raw" /\ ~IsBlankLine(input[1]) /\ InvalidJsonLogged(1)
    /\ MethodIs(input[2], "tools/call")
    /\ Len(out) = 1 /\ out[1].line = 2
    /\ "isError" \in DOMAIN out[1].env.result

\* the repository URLs on github.com among the URLs a peer sends
GithubRepoUrls == {"https://github.com/o/r", "https://github.com/o/r.git"}

\* the url of a tools/call line is absent, no string, or no GitHub repository URL
BadUrl(l) == WireString(l, "url") \notin GithubRepoUrls

\* C21: a call of one of the five GitHub-API tools whose url is absent, no
\* string or no GitHub repository URL comes back from the provider with the
\* failure "Invalid GitHub URL", no HTTP client built and no request sent; the
\* response is the error-flagged result with that text and main goes on.
C21_InvalidUrlRejected ==
    \A k \in 1..Len(calls) :
        LET i == calls[k].line
        IN  (IsToolCallLine(input[i]) /\ NameOnWire(input[i]) \in ApiTools /\ BadUrl(input[i])) =>
                /\ calls[k].outcome # None =>
                      /\ calls[k].outcome[1].kind = "return"
                      /\ ~calls[k].outcome[1].built
                      /\ calls[k].outcome[1].sent = <<>>
                      /\ calls[k].outcome[1].res = [ok |-> FALSE, err |-> "Invalid GitHub URL"]
                /\ \A a \in Answers(i) : out[a].env.result = ErrorResult("Invalid GitHub URL")
                /\ Finished(i) => (Cardinality(Answers(i)) = 1 /\ exit # "panic")

====
